---- MODULE Spec2Model ----
(***************************************************************************)
(* Model of notification-server/src/main.rs: the POST /notify handler and  *)
(* the pipeline it drives (readiness wait, lane build, lane export, upload *)
(* of the export directory to object storage).                             *)
(*                                                                         *)
(* Each handler invocation is a run r \in Runs.  A run's fields are the    *)
(* locals of notify_handler and of the functions it awaits, plus counters  *)
(* of the external operations it has issued.  The environment variables    *)
(* and the export directory are process-wide and outlive a run.            *)
(*                                                                         *)
(* Spec handles deliveries one at a time (Receive waits for the other runs *)
(* to be idle), as the design's "processed synchronously to completion".   *)
(***************************************************************************)
EXTENDS Integers, Sequences, FiniteSets, TLC

\* ------------------------------------------------------------------ bounds
MaxFiles == 2
MaxPathLen == 3
MaxSigterms == 2

\* --------------------------------------------------------- program constants
MAX_WAIT == 90
POLL_INTERVAL == 1
SIGTERM_GRACE_SECS == 60
HTTP_OK == 200
HTTP_INTERNAL_SERVER_ERROR == 500
PUT_OK == 200

\* ------------------------------------------------------------ value domains
Runs == {1, 2}

\* Option<T>: None is the empty sequence, Some(x) the one-element sequence.
None == <<>>
Some(x) == <<x>>
IsSome(o) == Len(o) = 1
Unwrap(o) == o[1]

\* The sequences over S of length at most n.
RECURSIVE SeqsUpTo(_, _)
SeqsUpTo(S, n) ==
    IF n = 0 THEN { <<>> }
    ELSE LET shorter == SeqsUpTo(S, n - 1)
         IN shorter \cup { Append(s, x) : s \in { t \in shorter : Len(t) = n - 1 }, x \in S }

\* Strings that the code takes apart are sequences of characters.
RegistryPaths == { <<"a">>, <<"a", ":", "t">> }
Digests == { <<"h", ":", "1">> }

\* LaneNotification: the fields the handler branches on or copies
\* (the others are only logged).
Notifications ==
    [success : BOOLEAN,
     digest : {None} \cup {Some(d) : d \in Digests},
     registry_path : RegistryPaths]

\* Every registry path of at most MaxPathLen characters, and more digests:
\* the notifications the image reference is computed for.
PathChars == {"a", "b", ":"}
WideNotifications ==
    [success : BOOLEAN,
     digest : {None, Some(<<"h", ":", "1">>), Some(<<"d">>)},
     registry_path : SeqsUpTo(PathChars, MaxPathLen)]

\* std::process::ExitStatus, as its Display renders it.
EXIT_0 == "exit status: 0"
ExitStatuses == {EXIT_0, "exit status: 1", "signal: 9"}

\* What one `docker info` invocation can yield.
PollOutcomes == {"ready", "not_ready", "spawn_error"}

\* What spawning and awaiting a child process can yield.
ProcOutcomes == {"spawn_error", "wait_error"} \cup ExitStatuses

\* Entries WalkDir yields for the export directory, by what the loop sees:
\*   "file"     Ok(entry), path.is_file(), name is valid UTF-8
\*   "badname"  Ok(entry), path.is_file(), file_name().to_str() is None
\*   "dir"      Ok(entry), not path.is_file()
\*   "err"      Err(_), dropped by filter_map(|e| e.ok())
EntryKinds == {"file", "badname", "dir", "err"}

\* A directory listing: entry i has name i.
Listings == SeqsUpTo(EntryKinds, MaxFiles)

NoDir == [exists |-> FALSE, entries |-> <<>>]
DirStates == {NoDir} \cup { [exists |-> TRUE, entries |-> l] : l \in Listings }

\* What upload_file can yield for one file.
\* kind "response" is a put that returned a response with status `code`.
PutOutcomes ==
    { [kind |-> k, code |-> 0] : k \in {"metadata_error", "read_error", "put_error"} }
    \cup { [kind |-> "response", code |-> c] : c \in {200, 204, 403} }

\* Environment variables: unset (None) or set to a value.
EnvNames == {"AWS_ACCESS_KEY_ID", "TIGRIS_ACCESS_KEY_ID",
             "AWS_SECRET_ACCESS_KEY", "TIGRIS_SECRET_ACCESS_KEY"}
Environments == { e \in [EnvNames -> {None, Some("aws"), Some("tigris")}] :
                    /\ e["AWS_ACCESS_KEY_ID"] \in {None, Some("aws")}
                    /\ e["AWS_SECRET_ACCESS_KEY"] \in {None, Some("aws")}
                    /\ e["TIGRIS_ACCESS_KEY_ID"] \in {None, Some("tigris")}
                    /\ e["TIGRIS_SECRET_ACCESS_KEY"] \in {None, Some("tigris")} }

\* Result<T, E>
Ok(v) == [ok |-> TRUE, val |-> v, err |-> <<>>]
Err(e) == [ok |-> FALSE, val |-> <<>>, err |-> e]

VARIABLES env, exportDir, run, proc

vars == <<env, exportDir, run, proc>>

\* ------------------------------------------------------------ pure functions

\* rsplit in place of split: the part before the last ':'.
RECURSIVE SplitLast(_, _)
SplitLast(s, c) ==
    IF s = <<>> THEN <<>>
    ELSE IF s[Len(s)] = c THEN SubSeq(s, 1, Len(s) - 1)
    ELSE IF \E i \in DOMAIN s : s[i] = c THEN SplitLast(SubSeq(s, 1, Len(s) - 1), c)
    ELSE s

\* registry_path.split(':').next(): the part before the first ':'.
RECURSIVE SplitFirst(_, _)
SplitFirst(s, c) ==
    IF s = <<>> \/ Head(s) = c THEN <<>>
    ELSE <<Head(s)>> \o SplitFirst(Tail(s), c)

\* format!("{}@{}", <repository>, digest)
ImageWithDigest(registry_path, digest) ==
    SplitFirst(registry_path, ":") \o <<"@">> \o digest

\* TokioCommand::new("lane").args(["build", "prod", "--image", image_with_digest])
BuildCommand(image) ==
    [program |-> "lane", args |-> <<"build", "prod", "--image">>, image |-> image]

\* status.success()
ExitSuccess(status) == status = EXIT_0

\* wait_for_docker's error after the deadline (line 201).
DockerTimeoutError == <<"Docker did not become ready within 90 seconds">>

\* Box<dyn Error> made from an std::io::Error (a failed spawn or wait).
IoError == <<"io error">>

\* ------------------------------------------------------------- responses

NoResponse == [code |-> 0, status |-> "", message |-> <<>>, container |-> <<>>]

PushFailedMessage == <<"Lane push failed">>
NoDigestMessage == <<"No digest provided in notification">>

PushFailedResponse(n) ==
    [code |-> HTTP_OK, status |-> "Failed",
     message |-> PushFailedMessage, container |-> n.registry_path]

NoDigestResponse(n) ==
    [code |-> HTTP_OK, status |-> "Warning",
     message |-> NoDigestMessage, container |-> n.registry_path]

BuildFailedResponse(image, e) ==
    [code |-> HTTP_INTERNAL_SERVER_ERROR, status |-> "Failed",
     message |-> <<"Lane build failed: ">> \o e, container |-> image]

ExportFailedResponse(image, e) ==
    [code |-> HTTP_OK, status |-> "Partial Success",
     message |-> <<"Lane build succeeded but export failed: ">> \o e,
     container |-> image]

SuccessResponse(image) ==
    [code |-> HTTP_OK, status |-> "Success",
     message |-> <<"Notification processed, Lane build and export completed successfully!">>,
     container |-> image]

\* ------------------------------------------------------------- run records

InitRun ==
    [pc |-> "idle",
     notif |-> [success |-> FALSE, digest |-> None, registry_path |-> <<>>],
     image |-> <<>>,
     elapsed |-> 0,          \* wait_for_docker: Instant::now() - (deadline - MAX_WAIT)
     polled |-> FALSE,       \* a `docker info` was invoked in this run
     ready |-> FALSE,        \* a `docker info` of this run exited with success
     builds |-> 0,           \* `lane build` spawns
     buildArgs |-> None,     \* Some(command line of the build spawn)
     buildStatus |-> None,   \* exit status child.wait() gave for the build
     exports |-> 0,          \* `lane export` spawns
     exportStatus |-> None,  \* exit status child.wait() gave for the export
     exported |-> None,      \* Some(what this run's export left in lane-export-temp)
     listed |-> None,        \* Some(the listing this run's WalkDir read)
     credLookups |-> 0,      \* passes through the std::env::var lookups
     accessKey |-> None,
     secretKey |-> None,
     clientOk |-> None,      \* Some(b): Credentials::new and Bucket::new returned Ok
     uploadResult |-> None,  \* Some(b): upload_to_tigris returned, Ok iff b
     enums |-> 0,            \* WalkDir enumerations started
     walk |-> <<>>,          \* entries the WalkDir iterator has yet to yield
     uploaded |-> 0,         \* uploaded_count
     failed |-> 0,           \* error_count
     puts |-> <<>>,          \* upload_file calls made: [name, outcome]
     response |-> NoResponse]

\* The handler returns `resp`.
Respond(rec, resp) == [rec EXCEPT !.pc = "done", !.response = resp]

\* Dispatch that never looks at the success flag.
DispatchIgnoringSuccess(n) ==
    IF IsSome(n.digest) THEN "pipeline" ELSE "no_digest"

\* Dispatch that treats a missing digest as a failed push.
DispatchMissingDigestFails(n) ==
    IF n.success /\ IsSome(n.digest) THEN "pipeline" ELSE "push_failed"

\* notify_handler, lines 70-71 and 132-155: which branch a notification takes.
Dispatch(n) ==
    IF n.success
    THEN IF IsSome(n.digest) THEN "pipeline" ELSE "no_digest"
    ELSE "push_failed"

\* HandlerAfterBuild that goes on to the export whatever the build returned.
HandlerAfterBuildAlwaysExports(rec, res) == [rec EXCEPT !.pc = "export"]

\* notify_handler's match on run_lane_build's result.
HandlerAfterBuild(rec, res) ==
    IF res.ok
    THEN [rec EXCEPT !.pc = "export"]
    ELSE Respond(rec, BuildFailedResponse(rec.image, res.err))

\* RunLaneBuildAfterWait without the `?`: the wait's error is dropped.
RunLaneBuildAfterWaitUnchecked(rec, res) == [rec EXCEPT !.pc = "build"]

\* RunLaneBuildAfterWait that starts the wait again when it failed.
RunLaneBuildAfterWaitRetries(rec, res) ==
    IF res.ok
    THEN [rec EXCEPT !.pc = "build"]
    ELSE [rec EXCEPT !.pc = "waiting"]

\* run_lane_build after `wait_for_docker().await?`.
RunLaneBuildAfterWait(rec, res) ==
    IF res.ok
    THEN [rec EXCEPT !.pc = "build"]
    ELSE HandlerAfterBuild(rec, res)

\* RunLaneBuildResult that never looks at the exit status.
RunLaneBuildResultIgnoringStatus(status) ==
    Ok(<<"Lane build completed successfully">>)

\* run_lane_build, lines 172-179: the exit status as a Result.
RunLaneBuildResult(status) ==
    IF ExitSuccess(status)
    THEN Ok(<<"Lane build completed successfully">>)
    ELSE Err(<<"Lane build failed with exit code ", status>>)

\* HandlerAfterExport that degrades the outcome when some file failed.
HandlerAfterExportStrict(rec, res) ==
    IF res.ok /\ rec.failed = 0
    THEN Respond(rec, SuccessResponse(rec.image))
    ELSE Respond(rec, ExportFailedResponse(rec.image, res.err))

\* notify_handler's match on run_lane_export_and_upload's result.
HandlerAfterExport(rec, res) ==
    IF res.ok
    THEN Respond(rec, SuccessResponse(rec.image))
    ELSE Respond(rec, ExportFailedResponse(rec.image, res.err))

\* RunLaneExportAfterExit without the exit-status check.
RunLaneExportAfterExitUnchecked(rec, status) == [rec EXCEPT !.pc = "upload"]

\* run_lane_export_and_upload, lines 381-388: after the export process exited.
RunLaneExportAfterExit(rec, status) ==
    IF ~ExitSuccess(status)
    THEN HandlerAfterExport(rec, Err(<<"Lane export failed with exit code ", status>>))
    ELSE [rec EXCEPT !.pc = "upload"]

\* run_lane_export_and_upload, lines 388-390: `upload_to_tigris(digest).await?; Ok(())`.
RunLaneExportAfterUpload(rec, res) ==
    HandlerAfterExport([rec EXCEPT !.uploadResult = Some(res.ok)], res)

\* EnvOr that looks at the fallback name first.
EnvOrFallbackFirst(e, primary, fallback) ==
    IF IsSome(e[fallback]) THEN e[fallback] ELSE e[primary]

\* std::env::var(primary).or_else(|_| std::env::var(fallback))
EnvOr(e, primary, fallback) ==
    IF IsSome(e[primary]) THEN e[primary] ELSE e[fallback]

\* UploadPrecheck that never looks up the secret key.
UploadPrecheckNoSecretLookup(e, dir, clientOk) ==
    IF ~IsSome(EnvOr(e, "AWS_ACCESS_KEY_ID", "TIGRIS_ACCESS_KEY_ID"))
    THEN Err(<<"AWS_ACCESS_KEY_ID or TIGRIS_ACCESS_KEY_ID environment variable not set">>)
    ELSE IF ~clientOk
    THEN Err(<<"s3 client error">>)
    ELSE IF ~dir.exists
    THEN Err(<<"Export directory 'lane-export-temp' does not exist">>)
    ELSE Ok(<<>>)

\* UploadPrecheck without the export_path.exists() check.
UploadPrecheckNoDirCheck(e, dir, clientOk) ==
    IF ~IsSome(EnvOr(e, "AWS_ACCESS_KEY_ID", "TIGRIS_ACCESS_KEY_ID"))
    THEN Err(<<"AWS_ACCESS_KEY_ID or TIGRIS_ACCESS_KEY_ID environment variable not set">>)
    ELSE IF ~IsSome(EnvOr(e, "AWS_SECRET_ACCESS_KEY", "TIGRIS_SECRET_ACCESS_KEY"))
    THEN Err(<<"AWS_SECRET_ACCESS_KEY or TIGRIS_SECRET_ACCESS_KEY environment variable not set">>)
    ELSE IF ~clientOk
    THEN Err(<<"s3 client error">>)
    ELSE Ok(<<>>)

\* upload_to_tigris, lines 399-422: everything before the enumeration.
\* clientOk: Credentials::new and Bucket::new both returned Ok.
UploadPrecheck(e, dir, clientOk) ==
    IF ~IsSome(EnvOr(e, "AWS_ACCESS_KEY_ID", "TIGRIS_ACCESS_KEY_ID"))
    THEN Err(<<"AWS_ACCESS_KEY_ID or TIGRIS_ACCESS_KEY_ID environment variable not set">>)
    ELSE IF ~IsSome(EnvOr(e, "AWS_SECRET_ACCESS_KEY", "TIGRIS_SECRET_ACCESS_KEY"))
    THEN Err(<<"AWS_SECRET_ACCESS_KEY or TIGRIS_SECRET_ACCESS_KEY environment variable not set">>)
    ELSE IF ~clientOk
    THEN Err(<<"s3 client error">>)
    ELSE IF ~dir.exists
    THEN Err(<<"Export directory 'lane-export-temp' does not exist">>)
    ELSE Ok(<<>>)

\* WalkDir::new(export_path).min_depth(1).max_depth(1).into_iter():
\* the direct children, each with its name.
WalkEntries(dir) == [i \in 1..Len(dir.entries) |-> [name |-> i, kind |-> dir.entries[i]]]

\* UploadFileResult that takes every 2xx status for a success.
UploadFileResultAny2xx(o) ==
    IF o.kind = "metadata_error" THEN Err(<<"Failed to get metadata for file">>)
    ELSE IF o.kind = "read_error" THEN Err(<<"Failed to read file">>)
    ELSE IF o.kind = "put_error" THEN Err(<<"Failed to upload">>)
    ELSE IF o.code >= 200 /\ o.code < 300 THEN Ok(<<>>)
    ELSE Err(<<"Upload failed with status code">>)

\* upload_file, lines 474-509: Ok only for a response with status code 200.
UploadFileResult(o) ==
    IF o.kind = "metadata_error" THEN Err(<<"Failed to get metadata for file">>)
    ELSE IF o.kind = "read_error" THEN Err(<<"Failed to read file">>)
    ELSE IF o.kind = "put_error" THEN Err(<<"Failed to upload">>)
    ELSE IF o.code = PUT_OK THEN Ok(<<>>)
    ELSE Err(<<"Upload failed with status code">>)

\* upload_to_tigris, lines 445-454: the match on upload_file's result.
CountUpload(rec, res) ==
    IF res.ok
    THEN [rec EXCEPT !.uploaded = @ + 1]
    ELSE [rec EXCEPT !.failed = @ + 1]

\* format!("{}/{}", digest, filename)
S3Key(digest, filename) == [prefix |-> digest, filename |-> filename]

\* wait_for_docker returns: its locals (the deadline) are dropped.
WaitReturn(rec) == [rec EXCEPT !.elapsed = 0]

\* The server process (async_main) and its shutdown-signal state machine:
\*   state     "running" until a select! branch of async_main completes
\*   uptime    start.elapsed() in seconds, kept up to SIGTERM_GRACE_SECS
\*   sigterms  SIGTERMs delivered so far
\*   cause     the signal that ended shutdown_signal, "" while running
InitProc ==
    [state |-> "running", uptime |-> 0, sigterms |-> 0, sigints |-> 0, cause |-> "",
     requested |-> None]

\* Handlers are polled only while the runtime lives.
Serving == proc.state = "running"

\* ------------------------------------------------------------------ actions

Init ==
    /\ env \in Environments
    /\ exportDir = NoDir
    /\ run = [r \in Runs |-> InitRun]
    /\ proc = InitProc

\* NewRun that goes on with what the handler's previous call left.
NewRunCarriesOver(prev, n) == [prev EXCEPT !.notif = n, !.response = NoResponse]

\* A call of notify_handler for notification n: the handler takes the payload
\* alone (no shared state extractor, no statics), so its locals are new
\* whatever the call before it, `prev`, left.
NewRun(prev, n) == [InitRun EXCEPT !.notif = n]

\* notify_handler up to its first await (lines 55-84 and 132-155).
HandlerStart(rec) ==
    LET n == rec.notif IN
    CASE Dispatch(n) = "push_failed" -> Respond(rec, PushFailedResponse(n))
      [] Dispatch(n) = "no_digest" -> Respond(rec, NoDigestResponse(n))
      [] OTHER ->
           [rec EXCEPT !.pc = "waiting",
                       !.image = ImageWithDigest(n.registry_path, Unwrap(n.digest)),
                       !.elapsed = 0]

\* A delivery of a notification drawn from N.
ReceiveFrom(r, N) ==
    /\ Serving
    /\ run[r].pc = "idle"
    /\ \E n \in N :
         run' = [run EXCEPT ![r] = HandlerStart(NewRun(run[r], n))]
    /\ UNCHANGED <<env, exportDir, proc>>

\* Deliveries are handled one at a time: no other run is in flight.
Receive(r) ==
    /\ \A q \in Runs \ {r} : run[q].pc = "idle"
    /\ ReceiveFrom(r, Notifications)

\* wait_for_docker, one iteration of the loop (lines 193-199).  The clock
\* advances by the sleep; the `docker info` call itself is taken to be instant,
\* so a wait that never sees the daemon ready polls MAX_WAIT / POLL_INTERVAL times.
PollDockerWith(r, outcomes) ==
    /\ Serving
    /\ run[r].pc = "waiting"
    /\ run[r].elapsed < MAX_WAIT
    /\ \E o \in outcomes :
         LET rec == [run[r] EXCEPT !.polled = TRUE] IN
         run' = [run EXCEPT ![r] =
            CASE o = "spawn_error" ->
                   RunLaneBuildAfterWait(WaitReturn(rec), Err(IoError))
              [] o = "ready" ->
                   RunLaneBuildAfterWait(WaitReturn([rec EXCEPT !.ready = TRUE]), Ok(<<>>))
              [] OTHER -> [rec EXCEPT !.elapsed = @ + POLL_INTERVAL]]
    /\ UNCHANGED <<env, exportDir, proc>>

PollDocker(r) == PollDockerWith(r, PollOutcomes)

\* A poll while the daemon is up: `docker info` succeeds if it can be launched.
PollDockerUp(r) == PollDockerWith(r, {"ready", "spawn_error"})

\* wait_for_docker, the loop condition fails (lines 193 and 201).
WaitTimeout(r) ==
    /\ Serving
    /\ run[r].pc = "waiting"
    /\ ~(run[r].elapsed < MAX_WAIT)
    /\ run' = [run EXCEPT ![r] =
          RunLaneBuildAfterWait(WaitReturn(run[r]), Err(DockerTimeoutError))]
    /\ UNCHANGED <<env, exportDir, proc>>

\* run_lane_build, lines 164-168: spawn `lane build prod --image <image>`.
SpawnBuild(r) ==
    /\ Serving
    /\ run[r].pc = "build"
    /\ \E spawned \in BOOLEAN :
         LET rec == [run[r] EXCEPT !.builds = @ + 1,
                                   !.buildArgs = Some(BuildCommand(run[r].image))] IN
         run' = [run EXCEPT ![r] =
            IF spawned THEN [rec EXCEPT !.pc = "building"]
            ELSE HandlerAfterBuild(rec, Err(IoError))]
    /\ UNCHANGED <<env, exportDir, proc>>

\* run_lane_build, lines 170-179: the build process exits.
BuildExit(r) ==
    /\ Serving
    /\ run[r].pc = "building"
    /\ \E o \in {"wait_error"} \cup ExitStatuses :
         run' = [run EXCEPT ![r] =
            IF o = "wait_error" THEN HandlerAfterBuild(run[r], Err(IoError))
            ELSE HandlerAfterBuild([run[r] EXCEPT !.buildStatus = Some(o)],
                                   RunLaneBuildResult(o))]
    /\ UNCHANGED <<env, exportDir, proc>>

\* run_lane_export_and_upload, lines 373-377: spawn `lane export prod lane-export-temp`.
SpawnExport(r) ==
    /\ Serving
    /\ run[r].pc = "export"
    /\ \E spawned \in BOOLEAN :
         LET rec == [run[r] EXCEPT !.exports = @ + 1] IN
         run' = [run EXCEPT ![r] =
            IF spawned THEN [rec EXCEPT !.pc = "exporting"]
            ELSE HandlerAfterExport(rec, Err(IoError))]
    /\ UNCHANGED <<env, exportDir, proc>>

\* run_lane_export_and_upload, lines 379-386: the export process exits.
\* A successful export leaves the export directory in one of the states `dirs`
\* (the tool is external); an unsuccessful one is taken to leave it as it was.
ExportExitWith(r, dirs) ==
    /\ Serving
    /\ run[r].pc = "exporting"
    /\ \E o \in {"wait_error"} \cup ExitStatuses :
         IF o = "wait_error"
         THEN /\ run' = [run EXCEPT ![r] = HandlerAfterExport(run[r], Err(IoError))]
              /\ UNCHANGED exportDir
         ELSE \E d \in IF ExitSuccess(o) THEN dirs ELSE {exportDir} :
                 /\ run' = [run EXCEPT ![r] =
                       RunLaneExportAfterExit(
                          [run[r] EXCEPT !.exportStatus = Some(o),
                                         !.exported = IF ExitSuccess(o) THEN Some(d) ELSE None],
                          o)]
                 /\ exportDir' = d
    /\ UNCHANGED <<env, proc>>

ExportExit(r) == ExportExitWith(r, DirStates)

\* An export that leaves a directory of regular files with UTF-8 names.
FileDirs == { d \in DirStates : d.exists /\ d.entries # <<>> /\ \A i \in DOMAIN d.entries : d.entries[i] = "file" }

ExportExitFiles(r) == ExportExitWith(r, FileDirs)

\* upload_to_tigris, lines 399-432: credentials, client, directory check and
\* the start of the enumeration.
UploadStart(r) ==
    /\ Serving
    /\ run[r].pc = "upload"
    /\ \E clientOk \in BOOLEAN :
         LET res == UploadPrecheck(env, exportDir, clientOk)
             rec == [run[r] EXCEPT
                        !.credLookups = @ + 1,
                        !.clientOk = Some(clientOk),
                        !.accessKey = EnvOr(env, "AWS_ACCESS_KEY_ID", "TIGRIS_ACCESS_KEY_ID"),
                        !.secretKey = EnvOr(env, "AWS_SECRET_ACCESS_KEY", "TIGRIS_SECRET_ACCESS_KEY")]
         IN run' = [run EXCEPT ![r] =
               IF res.ok
               THEN [rec EXCEPT !.pc = "uploading", !.enums = @ + 1,
                                !.walk = WalkEntries(exportDir),
                                !.listed = Some(exportDir.entries),
                                !.uploaded = 0, !.failed = 0]
               ELSE RunLaneExportAfterUpload(rec, res)]
    /\ UNCHANGED <<env, exportDir, proc>>

\* upload_to_tigris, one iteration of the for loop (lines 427-456), upload_file
\* yielding one of `outcomes`.
UploadNextWith(r, outcomes) ==
    /\ Serving
    /\ run[r].pc = "uploading"
    /\ run[r].walk # <<>>
    /\ LET entry == Head(run[r].walk)
           rec == [run[r] EXCEPT !.walk = Tail(@)]
       IN CASE entry.kind \in {"err", "dir"} ->
                 run' = [run EXCEPT ![r] = rec]
            [] entry.kind = "badname" ->
                 run' = [run EXCEPT ![r] =
                            RunLaneExportAfterUpload(rec, Err(<<"Invalid filename">>))]
            [] OTHER ->
                 \E o \in outcomes :
                    run' = [run EXCEPT ![r] =
                       CountUpload(
                          [rec EXCEPT !.puts = Append(@,
                              [key |-> S3Key(Unwrap(rec.notif.digest), entry.name),
                               outcome |-> o])],
                          UploadFileResult(o))]
    /\ UNCHANGED <<env, exportDir, proc>>

UploadNext(r) == UploadNextWith(r, PutOutcomes)

\* An iteration while the store is reachable: the put returns a response.
UploadNextStoreUp(r) ==
    UploadNextWith(r, { o \in PutOutcomes : o.kind = "response" /\ o.code \in {200, 403} })

\* upload_to_tigris, lines 458-466: the enumeration is exhausted.
UploadDone(r) ==
    /\ Serving
    /\ run[r].pc = "uploading"
    /\ run[r].walk = <<>>
    /\ run' = [run EXCEPT ![r] = RunLaneExportAfterUpload(run[r], Ok(<<>>))]
    /\ UNCHANGED <<env, exportDir, proc>>

\* The response is sent and the handler's locals are dropped.
Finish(r) ==
    /\ Serving
    /\ run[r].pc = "done"
    /\ run' = [run EXCEPT ![r] = InitRun]
    /\ UNCHANGED <<env, exportDir, proc>>

Next ==
    \E r \in Runs :
       \/ Receive(r)
       \/ PollDocker(r)
       \/ WaitTimeout(r)
       \/ SpawnBuild(r)
       \/ BuildExit(r)
       \/ SpawnExport(r)
       \/ ExportExit(r)
       \/ UploadStart(r)
       \/ UploadNext(r)
       \/ UploadDone(r)
       \/ Finish(r)

Spec == Init /\ [][Next]_vars

\* Both credentials set under both names.
FullEnv ==
    [n \in EnvNames |->
        IF n \in {"AWS_ACCESS_KEY_ID", "AWS_SECRET_ACCESS_KEY"} THEN Some("aws") ELSE Some("tigris")]

InitFullEnv == Init /\ env = FullEnv

\* The handler up to the end of the build, for every registry path of at most
\* MaxPathLen characters, with the daemon up.
ReceiveWide(r) ==
    /\ \A q \in Runs \ {r} : run[q].pc = "idle"
    /\ ReceiveFrom(r, WideNotifications)

NextImage ==
    \E r \in Runs :
       \/ ReceiveWide(r)
       \/ PollDockerUp(r)
       \/ SpawnBuild(r)
       \/ BuildExit(r)
       \/ Finish(r)

SpecImage == InitFullEnv /\ [][NextImage]_vars

\* ------------------------------------------------------------- properties

\* The run has issued no readiness poll, build, export or upload operation.
NoStageInvoked(rec) ==
    /\ ~rec.polled
    /\ rec.builds = 0
    /\ rec.exports = 0
    /\ rec.credLookups = 0
    /\ rec.enums = 0
    /\ rec.puts = <<>>

\* The upload stage has done nothing: no credential lookup, no enumeration, no put.
NoUpload(rec) ==
    /\ rec.credLookups = 0
    /\ rec.enums = 0
    /\ rec.puts = <<>>

Contains(msg, part) == \E i \in DOMAIN msg : msg[i] = part

BuildSucceeded(rec) == IsSome(rec.buildStatus) /\ ExitSuccess(Unwrap(rec.buildStatus))
BuildFailed(rec) == IsSome(rec.buildStatus) /\ ~ExitSuccess(Unwrap(rec.buildStatus))
ExportSucceeded(rec) == IsSome(rec.exportStatus) /\ ExitSuccess(Unwrap(rec.exportStatus))
ExportFailed(rec) == IsSome(rec.exportStatus) /\ ~ExitSuccess(Unwrap(rec.exportStatus))

\* C1 (as claimed): every response with status "Failed" is sent with HTTP 500,
\* the failed-push response included, and every response with status
\* "Success", "Warning" or "Partial Success" is sent with HTTP 200.
C1_StatusDecidesHttpCode ==
    \A r \in Runs :
       run[r].pc = "done" =>
          /\ run[r].response.status = "Failed"
                => run[r].response.code = HTTP_INTERNAL_SERVER_ERROR
          /\ run[r].response.status \in {"Success", "Warning", "Partial Success"}
                => run[r].response.code = HTTP_OK

\* C2: a notification with success == false, whatever its digest, ends at once
\* with status "Failed" and the fixed push-failed message, and the run invokes
\* no readiness poll, build, export or upload.
C2_PushFailedRunsNothing ==
    \A r \in Runs :
       (run[r].pc # "idle" /\ ~run[r].notif.success) =>
          /\ run[r].pc = "done"
          /\ run[r].response.status = "Failed"
          /\ run[r].response.message = PushFailedMessage
          /\ NoStageInvoked(run[r])

C2_Witness ==
    \E r \in Runs :
       /\ run[r].pc = "done"
       /\ ~run[r].notif.success
       /\ IsSome(run[r].notif.digest)
       /\ run[r].response.message = PushFailedMessage

\* C3: a notification with success == true and no digest ends at once with
\* status "Warning" and HTTP 200, and the run invokes no readiness poll,
\* build, export or upload.
C3_NoDigestWarns ==
    \A r \in Runs :
       (run[r].pc # "idle" /\ run[r].notif.success /\ ~IsSome(run[r].notif.digest)) =>
          /\ run[r].pc = "done"
          /\ run[r].response.status = "Warning"
          /\ run[r].response.code = HTTP_OK
          /\ NoStageInvoked(run[r])

C3_Witness ==
    \E r \in Runs :
       /\ run[r].pc = "done"
       /\ run[r].notif.success
       /\ run[r].notif.digest = None
       /\ run[r].response.status = "Warning"

\* C4: once the build process has exited non-zero the run is done with status
\* "Failed" and HTTP 500, it has started no export and no upload, and the
\* response message contains the exit status the build process reported.
C4_BuildFailureIsFailure ==
    \A r \in Runs :
       BuildFailed(run[r]) =>
          /\ run[r].pc = "done"
          /\ run[r].response.status = "Failed"
          /\ run[r].response.code = HTTP_INTERNAL_SERVER_ERROR
          /\ run[r].exports = 0
          /\ NoUpload(run[r])
          /\ Contains(run[r].response.message, Unwrap(run[r].buildStatus))

C4_Witness ==
    \E r \in Runs :
       /\ run[r].pc = "done"
       /\ run[r].builds = 1
       /\ run[r].buildStatus = Some("exit status: 1")
       /\ Contains(run[r].response.message, "exit status: 1")

\* C5: once the build process has exited 0 and the export process non-zero,
\* the run is done with status "Partial Success" and HTTP 200, and the upload
\* stage has not run: no credential lookup, no enumeration, no put.
C5_ExportFailureIsPartial ==
    \A r \in Runs :
       (BuildSucceeded(run[r]) /\ ExportFailed(run[r])) =>
          /\ run[r].pc = "done"
          /\ run[r].response.status = "Partial Success"
          /\ run[r].response.code = HTTP_OK
          /\ NoUpload(run[r])

C5_Witness ==
    \E r \in Runs :
       /\ run[r].pc = "done"
       /\ BuildSucceeded(run[r])
       /\ run[r].exports = 1
       /\ run[r].exportStatus = Some("exit status: 1")

\* C6: as long as no readiness poll of the run has reported ready, the run has
\* started no build, no export and no upload, and when the readiness wait ends
\* that way (the deadline passed) the run is done with status "Failed" and
\* HTTP 500.
C6_NotReadyIsFailure ==
    \A r \in Runs :
       (run[r].pc # "idle" /\ Dispatch(run[r].notif) = "pipeline" /\ ~run[r].ready) =>
          /\ run[r].builds = 0
          /\ run[r].exports = 0
          /\ NoUpload(run[r])
          /\ \/ run[r].pc = "waiting"
             \/ /\ run[r].pc = "done"
                /\ run[r].response.status = "Failed"
                /\ run[r].response.code = HTTP_INTERNAL_SERVER_ERROR

C6_Witness ==
    \E r \in Runs :
       /\ run[r].pc = "done"
       /\ run[r].polled
       /\ ~run[r].ready
       /\ run[r].response.message = <<"Lane build failed: ">> \o DockerTimeoutError

\* The upload_file calls of a run that returned Ok, and those that returned Err.
PutsOk(rec) == { i \in DOMAIN rec.puts : UploadFileResult(rec.puts[i].outcome).ok }
PutsFailed(rec) == { i \in DOMAIN rec.puts : ~UploadFileResult(rec.puts[i].outcome).ok }

\* The top-level regular files of a directory.
RegularFiles(dir) == { i \in DOMAIN dir.entries : dir.entries[i] \in {"file", "badname"} }

\* C7: when upload_to_tigris returned Ok, the response is "Success" with HTTP
\* 200 whatever the per-file results, uploaded_count is the number of files
\* whose upload_file returned Ok, error_count the number whose upload_file
\* returned Err, and together they make the number of top-level regular files
\* of the export directory.
C7_UploadOkIsSuccess ==
    \A r \in Runs :
       (run[r].pc = "done" /\ run[r].uploadResult = Some(TRUE)) =>
          /\ run[r].response.status = "Success"
          /\ run[r].response.code = HTTP_OK
          /\ run[r].uploaded = Cardinality(PutsOk(run[r]))
          /\ run[r].failed = Cardinality(PutsFailed(run[r]))
          /\ run[r].uploaded + run[r].failed = Cardinality(RegularFiles(exportDir))

C7_Witness ==
    \E r \in Runs :
       /\ run[r].pc = "done"
       /\ BuildSucceeded(run[r])
       /\ ExportSucceeded(run[r])
       /\ run[r].uploadResult = Some(TRUE)
       /\ run[r].uploaded = 1
       /\ run[r].failed = 1
       /\ run[r].response.status = "Success"

\* The conditions under which upload_to_tigris returns an error, read off the
\* environment, the client construction and the export directory.
AccessKeyMissing == ~IsSome(env["AWS_ACCESS_KEY_ID"]) /\ ~IsSome(env["TIGRIS_ACCESS_KEY_ID"])
SecretKeyMissing == ~IsSome(env["AWS_SECRET_ACCESS_KEY"]) /\ ~IsSome(env["TIGRIS_SECRET_ACCESS_KEY"])
HasBadName(dir) == \E i \in DOMAIN dir.entries : dir.entries[i] = "badname"

\* C8 (as claimed): upload_to_tigris returns an error only if the export
\* directory does not exist.
C8_UploadErrorOnlyIfNoDir ==
    \A r \in Runs :
       run[r].uploadResult = Some(FALSE) => ~exportDir.exists

\* C8 (amended): upload_to_tigris returns an error exactly when an access key
\* or a secret key is set under neither of its two names, or the storage
\* client cannot be constructed, or the export directory does not exist, or a
\* top-level regular file has a name that is not valid UTF-8; in every other
\* situation, whatever the per-file results, it returns Ok.
C8_UploadErrorCauses ==
    \A r \in Runs :
       (run[r].pc = "done" /\ run[r].credLookups = 1) =>
          /\ IsSome(run[r].uploadResult)
          /\ run[r].uploadResult = Some(FALSE) <=>
                \/ AccessKeyMissing
                \/ SecretKeyMissing
                \/ run[r].clientOk = Some(FALSE)
                \/ ~exportDir.exists
                \/ HasBadName(exportDir)

C8_Witness ==
    \E r \in Runs :
       /\ run[r].pc = "done"
       /\ run[r].uploadResult = Some(FALSE)
       /\ exportDir.exists
       /\ ~HasBadName(exportDir)
       /\ run[r].clientOk = Some(TRUE)
       /\ ~AccessKeyMissing
       /\ SecretKeyMissing

\* C9: when build and export succeeded and the export directory does not
\* exist as the upload stage starts, the run is done with status
\* "Partial Success" and HTTP 200 and has put no file to object storage.
C9_MissingDirIsPartial ==
    \A r \in Runs :
       (/\ BuildSucceeded(run[r])
        /\ ExportSucceeded(run[r])
        /\ run[r].credLookups = 1
        /\ ~exportDir.exists) =>
          /\ run[r].pc = "done"
          /\ run[r].response.status = "Partial Success"
          /\ run[r].response.code = HTTP_OK
          /\ run[r].puts = <<>>

C9_Witness ==
    \E r \in Runs :
       /\ run[r].pc = "done"
       /\ BuildSucceeded(run[r])
       /\ ExportSucceeded(run[r])
       /\ ~exportDir.exists
       /\ ~AccessKeyMissing
       /\ ~SecretKeyMissing
       /\ run[r].clientOk = Some(TRUE)
       /\ run[r].uploadResult = Some(FALSE)
       /\ Contains(run[r].response.message,
                   "Export directory 'lane-export-temp' does not exist")

\* C10: within a run the operations come in the order readiness poll, build,
\* export, upload.  A step starts the build only when a poll of the run has
\* reported ready and no build was started before; it starts the export only
\* when the build has exited with success and no export was started before;
\* it starts any part of the upload only when the export has exited with
\* success; and it polls only before the build is started.
C10_StageOrderStep(r) ==
    /\ run'[r].builds > run[r].builds
          => run[r].ready /\ run[r].builds = 0 /\ run'[r].builds = 1
    /\ run'[r].exports > run[r].exports
          => BuildSucceeded(run[r]) /\ run[r].exports = 0 /\ run'[r].exports = 1
    /\ (\/ run'[r].credLookups > run[r].credLookups
        \/ run'[r].enums > run[r].enums
        \/ Len(run'[r].puts) > Len(run[r].puts))
          => ExportSucceeded(run[r])
    /\ (run[r].pc = "waiting" /\ run'[r].pc \in {"waiting", "build"})
          => run[r].builds = 0 /\ run[r].exports = 0 /\ NoUpload(run[r])
    /\ run'[r].pc = "build" => run[r].pc = "waiting" /\ run'[r].ready
    /\ run'[r].pc = "building" => run[r].pc = "build"

C10_StageOrder == [][\A r \in Runs : C10_StageOrderStep(r)]_vars

C10_Witness ==
    \E r \in Runs :
       /\ run[r].pc = "done"
       /\ run[r].polled /\ run[r].ready
       /\ run[r].builds = 1 /\ BuildSucceeded(run[r])
       /\ run[r].exports = 1 /\ ExportSucceeded(run[r])
       /\ run[r].enums = 1
       /\ Len(run[r].puts) = 2

\* p is the part of path before its first ':' (all of it when it has none).
IsRepository(p, path) ==
    \E k \in 0..Len(path) :
       /\ p = SubSeq(path, 1, k)
       /\ \A i \in 1..k : path[i] # ":"
       /\ k = Len(path) \/ path[k + 1] = ":"

IsImageReference(img, n) ==
    \E k \in 0..Len(n.registry_path) :
       /\ IsRepository(SubSeq(n.registry_path, 1, k), n.registry_path)
       /\ img = SubSeq(n.registry_path, 1, k) \o <<"@">> \o Unwrap(n.digest)

\* C14: for a notification with success == true and a digest, the image
\* reference the run holds, the one passed to the build process as --image and
\* the container field of its response are all p + "@" + digest, p being the
\* part of registry_path before its first ':' (all of it when it has none).
C14_ImageReference ==
    \A r \in Runs :
       (run[r].pc # "idle" /\ run[r].notif.success /\ IsSome(run[r].notif.digest)) =>
          /\ IsImageReference(run[r].image, run[r].notif)
          /\ IsSome(run[r].buildArgs)
                => IsImageReference(Unwrap(run[r].buildArgs).image, run[r].notif)
          /\ run[r].pc = "done"
                => IsImageReference(run[r].response.container, run[r].notif)

C14_Witness ==
    \E r \in Runs :
       /\ run[r].pc = "done"
       /\ run[r].notif.registry_path = <<"a", ":", "b">>
       /\ run[r].notif.digest = Some(<<"h", ":", "1">>)
       /\ IsSome(run[r].buildArgs)
       /\ Unwrap(run[r].buildArgs).image = <<"a", "@", "h", ":", "1">>
       /\ run[r].response.container = <<"a", "@", "h", ":", "1">>

\* The names upload_file was called for, in order.
Attempted(rec) == [j \in DOMAIN rec.puts |-> rec.puts[j].key.filename]

\* C15 (as claimed): once the enumeration has started, every top-level regular
\* file of the export directory is attempted exactly once, whatever the results
\* of the files before it, and nothing that is not a regular file is uploaded.
C15_EveryFileAttemptedOnce ==
    \A r \in Runs :
       (run[r].pc = "done" /\ run[r].enums = 1) =>
          /\ \A i \in RegularFiles(exportDir) :
                Cardinality({ j \in DOMAIN run[r].puts : Attempted(run[r])[j] = i }) = 1
          /\ \A j \in DOMAIN run[r].puts :
                Attempted(run[r])[j] \in RegularFiles(exportDir)

\* The upload_file calls whose put returned a response with a status in 200..299,
\* and those whose put returned a response with status 200.
Puts2xx(rec) ==
    { j \in DOMAIN rec.puts :
         /\ rec.puts[j].outcome.kind = "response"
         /\ rec.puts[j].outcome.code \in 200..299 }
Puts200(rec) ==
    { j \in DOMAIN rec.puts :
         /\ rec.puts[j].outcome.kind = "response"
         /\ rec.puts[j].outcome.code = 200 }

\* C16 (as claimed): the files counted as uploaded are those whose put returned
\* a 2xx response, the files counted as failed all the others.
C16_CountedIff2xx ==
    \A r \in Runs :
       /\ run[r].uploaded = Cardinality(Puts2xx(run[r]))
       /\ run[r].failed = Len(run[r].puts) - Cardinality(Puts2xx(run[r]))

\* C16 (amended): the files counted as uploaded are those whose put returned a
\* response with status 200; every other file attempted (another status, 2xx
\* included, a transport error, a metadata or read error) is counted as failed.
C16_CountedIff200 ==
    \A r \in Runs :
       /\ run[r].uploaded = Cardinality(Puts200(run[r]))
       /\ run[r].failed = Len(run[r].puts) - Cardinality(Puts200(run[r]))

C16_Witness ==
    \E r \in Runs :
       /\ run[r].pc = "done"
       /\ Len(run[r].puts) = 2
       /\ run[r].puts[1].outcome = [kind |-> "response", code |-> 200]
       /\ run[r].puts[2].outcome = [kind |-> "response", code |-> 204]
       /\ run[r].uploaded = 1
       /\ run[r].failed = 1

\* C17 (as claimed): the readiness wait ends only with a poll that reports
\* ready, and then at once, or with the deadline passed; until then every poll
\* that does not report ready, a failed launch included, is followed by a sleep
\* of the poll interval and another poll.
C17_WaitStep(r) ==
    /\ (run[r].pc = "waiting" /\ run'[r].pc # "waiting")
          => \/ run'[r].ready /\ run'[r].pc = "build"
             \/ ~(run[r].elapsed < MAX_WAIT)
    /\ (run[r].pc = "waiting" /\ run'[r].pc = "waiting")
          => /\ ~run'[r].ready
             /\ run'[r].elapsed = run[r].elapsed + POLL_INTERVAL

C17_WaitEndsOnReadyOrDeadline == [][\A r \in Runs : C17_WaitStep(r)]_vars

\* The status and HTTP code of a run that ended before the upload stage, from
\* its notification and its stage results alone.
EarlyOutcome(rec) ==
    IF ~rec.notif.success THEN <<"Failed", 200>>
    ELSE IF ~IsSome(rec.notif.digest) THEN <<"Warning", 200>>
    ELSE IF ~rec.ready \/ ~BuildSucceeded(rec) THEN <<"Failed", 500>>
    ELSE <<"Partial Success", 200>>

\* C19: the storage credentials matter only once the upload stage is reached.
\* A run that ends before it has the outcome its notification and stage
\* results give, whatever the environment; a run that reaches it with an access
\* key or a secret key set under neither name ends with "Partial Success"
\* before any enumeration or put; and a key set under both names is taken from
\* the primary one (from the fallback when only that is set).
C19_CredentialsOnlyAtUpload ==
    \A r \in Runs :
       /\ (run[r].pc = "done" /\ run[r].credLookups = 0)
             => <<run[r].response.status, run[r].response.code>> = EarlyOutcome(run[r])
       /\ (run[r].credLookups = 1 /\ (AccessKeyMissing \/ SecretKeyMissing))
             => /\ run[r].pc = "done"
                /\ run[r].response.status = "Partial Success"
                /\ run[r].uploadResult = Some(FALSE)
                /\ run[r].enums = 0
                /\ run[r].puts = <<>>
       /\ run[r].credLookups = 1
             => /\ run[r].accessKey =
                      IF IsSome(env["AWS_ACCESS_KEY_ID"]) THEN env["AWS_ACCESS_KEY_ID"]
                      ELSE env["TIGRIS_ACCESS_KEY_ID"]
                /\ run[r].secretKey =
                      IF IsSome(env["AWS_SECRET_ACCESS_KEY"]) THEN env["AWS_SECRET_ACCESS_KEY"]
                      ELSE env["TIGRIS_SECRET_ACCESS_KEY"]

C19_Witness ==
    \E r \in Runs :
       /\ run[r].pc = "done"
       /\ run[r].credLookups = 1
       /\ AccessKeyMissing
       /\ SecretKeyMissing
       /\ run[r].response.status = "Partial Success"
       /\ run[r].puts = <<>>

\* One step of run r's pipeline: everything between the acceptance of the
\* notification and its response.
RunStep(r) ==
    \/ PollDocker(r)
    \/ WaitTimeout(r)
    \/ SpawnBuild(r)
    \/ BuildExit(r)
    \/ SpawnExport(r)
    \/ ExportExit(r)
    \/ UploadStart(r)
    \/ UploadNext(r)
    \/ UploadDone(r)

\* The environments of the liveness check: every name set, or none.
NoEnv == [n \in EnvNames |-> None]

InitLive == Init /\ env \in {FullEnv, NoEnv}

\* The runtime keeps polling the handler's future, and every external process
\* and every put terminates: a pipeline step that stays possible is taken.
\* Deliveries and the sending of the response are the client's and are not
\* forced.
Fairness == \A r \in Runs : WF_vars(RunStep(r))

SpecLive == InitLive /\ [][Next]_vars /\ Fairness

\* C18: the readiness wait never runs past its deadline, and every accepted
\* notification eventually has its terminal outcome and response.
C18_EveryRunTerminates ==
    /\ [](\A r \in Runs : run[r].elapsed <= MAX_WAIT)
    /\ \A r \in Runs : (run[r].pc # "idle") ~> (run[r].pc = "done")

C18_Witness ==
    \E r \in Runs :
       /\ run[r].pc = "done"
       /\ run[r].polled
       /\ ~run[r].ready
       /\ run[r].response.message = <<"Lane build failed: ">> \o DockerTimeoutError

\* GraceOver that still ignores a SIGTERM at exactly the end of the grace period.
GraceOverStrict(uptime) == uptime > SIGTERM_GRACE_SECS

\* async_main, line 314: `start.elapsed() >= Duration::from_secs(SIGTERM_GRACE_SECS)`.
GraceOver(uptime) == uptime >= SIGTERM_GRACE_SECS

\* One second passes.  The clock is followed up to one second past the grace
\* period; later seconds behave like that one.
Tick ==
    /\ Serving
    /\ proc.uptime <= SIGTERM_GRACE_SECS
    /\ proc' = [proc EXCEPT !.uptime = @ + 1]
    /\ UNCHANGED <<env, exportDir, run>>

\* async_main, sigterm_loop (lines 311-322) and the outer select! (lines
\* 349-365): a SIGTERM after the grace period ends the loop, the shutdown
\* future and async_main; an earlier one is logged and ignored.
DeliverSigterm ==
    /\ Serving
    /\ IF GraceOver(proc.uptime)
       THEN proc' = [proc EXCEPT !.sigterms = @ + 1, !.state = "exited", !.cause = "SIGTERM",
                                 !.requested = Some(proc.uptime)]
       ELSE /\ proc.sigterms < MaxSigterms
            /\ proc' = [proc EXCEPT !.sigterms = @ + 1]
    /\ UNCHANGED <<env, exportDir, run>>

\* async_main, ctrl_c (lines 301-305, 324-327) and the outer select!.
DeliverCtrlC ==
    /\ Serving
    /\ proc' = [proc EXCEPT !.sigints = @ + 1, !.state = "exited", !.cause = "SIGINT",
                        !.requested = Some(proc.uptime)]
    /\ UNCHANGED <<env, exportDir, run>>

\* The shutdown-signal state machine on its own.
NextSignals ==
    \/ Tick
    \/ DeliverSigterm
    \/ DeliverCtrlC

SpecSignals == InitFullEnv /\ [][NextSignals]_vars

\* C20: a SIGTERM received less than SIGTERM_GRACE_SECS seconds after the start
\* is ignored, however many came before it; a SIGTERM received at or after that
\* time shuts the server down; Ctrl+C shuts it down at any time; and nothing
\* else does.
C20_SignalStep ==
    /\ proc'.sigterms # proc.sigterms
          => (proc'.state = "exited" <=> proc.uptime >= SIGTERM_GRACE_SECS)
    /\ proc'.sigints # proc.sigints
          => proc'.state = "exited"
    /\ (proc.state = "running" /\ proc'.state = "exited")
          => \/ proc'.sigints # proc.sigints
             \/ proc'.sigterms # proc.sigterms /\ proc.uptime >= SIGTERM_GRACE_SECS
    /\ proc.state = "exited" => proc' = proc

C20_ShutdownSignals == [][C20_SignalStep]_vars

C20_Witness ==
    /\ proc.state = "exited"
    /\ proc.cause = "SIGTERM"
    /\ proc.uptime = SIGTERM_GRACE_SECS
    /\ proc.sigterms = MaxSigterms + 1

\* The server with its signal handling: deliveries one at a time, the daemon
\* up, and the clock and the signals beside the handlers.  When async_main
\* returns the runtime is dropped and with it every handler task, so no run
\* takes a step after the exit.
NextShutdown ==
    \/ \E r \in Runs :
          \/ Receive(r)
          \/ PollDockerUp(r)
          \/ SpawnBuild(r)
          \/ BuildExit(r)
          \/ SpawnExport(r)
          \/ ExportExit(r)
          \/ UploadStart(r)
          \/ UploadNext(r)
          \/ UploadDone(r)
          \/ Finish(r)
    \/ Tick
    \/ DeliverSigterm
    \/ DeliverCtrlC

SpecShutdown == InitFullEnv /\ [][NextShutdown]_vars

\* A build, an export or an upload of the run is going on.
StageRunning(rec) == rec.pc \in {"building", "exporting", "uploading"}

\* C11 (as claimed): the server has not exited while a build, export or upload
\* is running unless the exit came a grace period after the shutdown request.
C11_ShutdownWaitsForRuns ==
    proc.state = "exited" =>
       \/ \A r \in Runs : ~StageRunning(run[r])
       \/ proc.uptime - Unwrap(proc.requested) >= SIGTERM_GRACE_SECS

\* Pushed images of two different digests.
ConcurrentNotifications ==
    [success : {TRUE},
     digest : {Some(<<"h", ":", "1">>), Some(<<"h", ":", "2">>)},
     registry_path : {<<"a">>}]

\* Deliveries handled as they come, whatever the other handlers are doing.
ReceiveConcurrent(r) == ReceiveFrom(r, ConcurrentNotifications)

\* Handlers of several notifications running at once, the daemon up.
NextConcurrent ==
    \E r \in Runs :
       \/ ReceiveConcurrent(r)
       \/ PollDockerUp(r)
       \/ SpawnBuild(r)
       \/ BuildExit(r)
       \/ SpawnExport(r)
       \/ ExportExitFiles(r)
       \/ UploadStart(r)
       \/ UploadNextStoreUp(r)
       \/ UploadDone(r)
       \/ Finish(r)

SpecConcurrent == InitFullEnv /\ [][NextConcurrent]_vars

\* C12 (as claimed): whatever the other handlers do, a run enumerates the
\* listing its own export left, and every file it puts is a regular file of
\* that listing, stored under its own digest.
C12_UploadsOwnExport ==
    \A r \in Runs :
       run[r].enums = 1 =>
          /\ IsSome(run[r].exported)
          /\ run[r].listed = Some(Unwrap(run[r].exported).entries)
          /\ \A j \in DOMAIN run[r].puts :
                /\ run[r].puts[j].key.prefix = Unwrap(run[r].notif.digest)
                /\ Attempted(run[r])[j] \in RegularFiles(Unwrap(run[r].exported))

\* The notification of a finished run q is delivered again; the new call is
\* followed in slot r, the finished one is kept for comparison.
Redeliver(r) ==
    /\ Serving
    /\ run[r].pc = "idle"
    /\ \E q \in Runs \ {r} :
         /\ run[q].pc = "done"
         /\ run' = [run EXCEPT ![r] = HandlerStart(NewRun(run[q], run[q].notif))]
    /\ UNCHANGED <<env, exportDir, proc>>

\* A delivery, its run, and the same notification delivered again after it,
\* the daemon up or failing to answer.
NextRedelivery ==
    \E r \in Runs :
       \/ Receive(r)
       \/ Redeliver(r)
       \/ PollDockerUp(r)
       \/ SpawnBuild(r)
       \/ BuildExit(r)
       \/ SpawnExport(r)
       \/ ExportExit(r)
       \/ UploadStart(r)
       \/ UploadNext(r)
       \/ UploadDone(r)

SpecRedelivery == InitFullEnv /\ [][NextRedelivery]_vars

\* What the outside gave to the stages of a run.
StageResults(rec) ==
    <<rec.polled, rec.ready, rec.builds, rec.buildStatus, rec.exports, rec.exportStatus,
      rec.exported, rec.clientOk, rec.listed,
      [j \in DOMAIN rec.puts |-> rec.puts[j].outcome]>>

\* The outcome of a run.
Outcome(rec) == <<rec.response.status, rec.response.code, rec.response.container>>

\* A run that has just started holds nothing of an earlier one.
C13_StartsClean(r) ==
    (run[r].pc = "idle" /\ run'[r].pc # "idle") =>
       /\ run'[r].uploaded = 0
       /\ run'[r].failed = 0
       /\ run'[r].puts = <<>>
       /\ ~run'[r].polled
       /\ ~run'[r].ready
       /\ run'[r].builds = 0
       /\ run'[r].exports = 0
       /\ run'[r].enums = 0

\* A run builds only after a poll of its own reported ready, and starts its
\* enumeration with both counters at 0.
C13_WaitsAndCounts(r) ==
    /\ run'[r].builds # run[r].builds => (run[r].polled /\ run[r].ready)
    /\ run'[r].enums # run[r].enums => (run'[r].uploaded = 0 /\ run'[r].failed = 0)

\* C13: a notification delivered again after its first run has finished starts
\* a run that carries nothing over (counters at 0, no ready result, hence a
\* readiness wait of its own before any build), and two finished runs of the
\* same notification with the same stage results have the same outcome.
C13_RedeliveryIndependent ==
    /\ [][\A r \in Runs : C13_StartsClean(r) /\ C13_WaitsAndCounts(r)]_vars
    /\ [](\A r, q \in Runs :
            (/\ run[r].pc = "done"
             /\ run[q].pc = "done"
             /\ run[r].notif = run[q].notif
             /\ StageResults(run[r]) = StageResults(run[q]))
            => Outcome(run[r]) = Outcome(run[q]))

C13_Witness ==
    /\ \A r \in Runs : run[r].pc = "done"
    /\ run[1].notif = run[2].notif
    /\ \E r \in Runs :
         /\ run[r].response.status = "Success"
         /\ run[r].uploaded >= 1
    /\ \E r \in Runs :
         /\ run[r].polled
         /\ ~run[r].ready
         /\ run[r].response.status = "Failed"

====
